---- MODULE Spec2Model ----
(***************************************************************************)
(* kubectl-get-resources: cmd/kubectl-get-resources/main.go                *)
(*                                                                         *)
(* One run of the plugin: flag validation, kubeconfig loading, header      *)
(* emission, mode selection, discovery walk, list calls, time filter and   *)
(* sink routing.                                                           *)
(*                                                                         *)
(* Strings that the program takes apart or puts together (group/version    *)
(* strings, resource names, namespaces, object names, paths) are sequences *)
(* of one-character strings, so that Contains, HasSuffix, concatenation    *)
(* and filepath.Join are computed and not assumed.                         *)
(* An instant is an integer; 0 is Go's zero time.Time (IsZero).            *)
(***************************************************************************)
EXTENDS Integers, Sequences, FiniteSets, TLC

(* ------------------------------ bounds --------------------------------- *)

\* Instants range over -1..MaxTime (year 0000 parses as RFC 3339 and lies
\* before the zero instant).
MaxTime == 2

\* Longest --namespace list explored.
MaxNamespaces == 2

(* ------------------------------ strings -------------------------------- *)

EmptyStr == << >>
Slash == "/"
Star == <<"*">>

s_v1 == <<"v","1">>
s_default == <<"d","e","f","a","u","l","t">>
s_kube_system == <<"k","u","b","e","-","s","y","s","t","e","m">>
s_out == <<"o","u","t">>
s_pods == <<"p","o","d","s">>
s_pods_status == <<"p","o","d","s","/","s","t","a","t","u","s">>
s_events == <<"e","v","e","n","t","s">>
s_evts == <<"e","v","t","s">>
s_nodes == <<"n","o","d","e","s">>
s_configmaps == <<"c","o","n","f","i","g","m","a","p","s">>
s_roles == <<"r","o","l","e","s">>
s_things == <<"t","h","i","n","g","s">>
s_openshift_io == <<"o","p","e","n","s","h","i","f","t",".","i","o">>
s_openshift_ == <<"o","p","e","n","s","h","i","f","t","_">>
s_yaml == <<".","y","a","m","l">>
s_rbac_ == <<"r","b","a","c",".">>
s_k8s_io == <<"k","8","s",".","i","o">>
s_authorization == <<"a","u","t","h","o","r","i","z","a","t","i","o","n",".">>
s_events_k8s_io == <<"e","v","e","n","t","s",".","k","8","s",".","i","o">>
s_web == <<"w","e","b">>
s_dns == <<"d","n","s">>
s_admin == <<"a","d","m","i","n">>
s_n1 == <<"n","1">>
s_ev == <<"e","v">>
s_cfg == <<"c","f","g">>

\* the groups authorization.openshift.io and rbac.authorization.k8s.io
g_openshift == s_authorization \o s_openshift_io
g_rbac == s_rbac_ \o s_authorization \o s_k8s_io

\* strings.Contains(s, "/") and strings.Count(s, "/")
ContainsSlash(s) == \E i \in 1..Len(s) : s[i] = Slash
CountSlash(s) == Cardinality({i \in 1..Len(s) : s[i] = Slash})
\* strings.Index(s, "/"), 1-based; only used when a slash is present
IndexSlash(s) == CHOOSE i \in 1..Len(s) : s[i] = Slash /\ \A j \in 1..(i-1) : s[j] # Slash

\* strings.HasSuffix(s, suffix)
HasSuffix(s, suffix) ==
    /\ Len(s) >= Len(suffix)
    /\ SubSeq(s, Len(s) - Len(suffix) + 1, Len(s)) = suffix

\* the list helper of main.go
contains(list, val) == \E i \in 1..Len(list) : list[i] = val

(* ------------------------------- time ---------------------------------- *)

TimeRange == (-1)..MaxTime

\* Flag values for --before/--after/--start/--end: the empty string, a string
\* that is no RFC 3339 timestamp, or an RFC 3339 timestamp with wall-clock
\* reading `wall` and zone offset `off` (hours east of UTC).
EmptyTs == [kind |-> "empty", wall |-> 0, off |-> 0]
BadTs == [kind |-> "bad", wall |-> 0, off |-> 0]
Rfc3339(wall, off) == [kind |-> "rfc3339", wall |-> wall, off |-> off]
TsStrings == {EmptyTs, BadTs} \cup {Rfc3339(w, o) : w \in TimeRange, o \in {0, 1}}

\* time.Parse(time.RFC3339, s): the instant is the wall reading minus the offset.
TimeParse(s) ==
    IF s.kind = "rfc3339" THEN [ok |-> TRUE, t |-> s.wall - s.off]
    ELSE [ok |-> FALSE, t |-> 0]

\* time.Time.IsZero
IsZero(t) == t = 0

\* t.UTC().Format(time.RFC3339)
FormatUTC(t) == Rfc3339(t, 0)

(* ------------------------------ filter --------------------------------- *)

\* var filter ResourceFilter (the zero value)
ZeroFilter ==
    [Before |-> 0, After |-> 0, Start |-> 0, End |-> 0,
     OutputDir |-> EmptyStr, ResourceData |-> FALSE]

NoError == "nil"

validateAndBuildFilter(beforeStr, afterStr, startStr, endStr, output, resourceData) ==
    LET isSet(s) == s # EmptyTs
        pb == TimeParse(beforeStr)
        pa == TimeParse(afterStr)
        ps == TimeParse(startStr)
        pe == TimeParse(endStr)
        f1 == IF isSet(beforeStr) THEN [ZeroFilter EXCEPT !.Before = pb.t] ELSE ZeroFilter
        f2 == IF isSet(afterStr) THEN [f1 EXCEPT !.After = pa.t] ELSE f1
        f3 == IF isSet(startStr) THEN [f2 EXCEPT !.Start = ps.t] ELSE f2
        f4 == IF isSet(startStr) THEN [f3 EXCEPT !.End = pe.t] ELSE f3
    IN  IF isSet(beforeStr) /\ isSet(afterStr)
        THEN [err |-> "cannot use both --before and --after", filter |-> ZeroFilter]
        ELSE IF (isSet(startStr) /\ ~isSet(endStr)) \/ (~isSet(startStr) /\ isSet(endStr))
        THEN [err |-> "--start and --end must be used together", filter |-> ZeroFilter]
        ELSE IF (isSet(beforeStr) \/ isSet(afterStr)) /\ (isSet(startStr) \/ isSet(endStr))
        THEN [err |-> "--before/--after cannot be used with --start/--end", filter |-> ZeroFilter]
        ELSE IF isSet(beforeStr) /\ ~pb.ok
        THEN [err |-> "invalid --before timestamp", filter |-> ZeroFilter]
        ELSE IF isSet(afterStr) /\ ~pa.ok
        THEN [err |-> "invalid --after timestamp", filter |-> f1]
        ELSE IF isSet(startStr) /\ ~ps.ok
        THEN [err |-> "invalid --start timestamp", filter |-> f2]
        ELSE IF isSet(startStr) /\ ~pe.ok
        THEN [err |-> "invalid --end timestamp", filter |-> f3]
        ELSE IF resourceData /\ output # EmptyStr
        THEN [err |-> "--resource-data and --output are mutually exclusive", filter |-> f4]
        ELSE [err |-> NoError,
              filter |-> [f4 EXCEPT !.OutputDir = output, !.ResourceData = resourceData]]

(* ----------------------------- discovery ------------------------------- *)

\* schema.ParseGroupVersion, as called at main.go:294: "" and "/" give the
\* empty GroupVersion, no slash gives the version alone, one slash splits,
\* more than one slash is an error.
ParseGroupVersion(gv) ==
    IF Len(gv) = 0 \/ gv = <<Slash>>
    THEN [ok |-> TRUE, Group |-> EmptyStr, Version |-> EmptyStr]
    ELSE IF CountSlash(gv) = 0
    THEN [ok |-> TRUE, Group |-> EmptyStr, Version |-> gv]
    ELSE IF CountSlash(gv) = 1
    THEN [ok |-> TRUE, Group |-> SubSeq(gv, 1, IndexSlash(gv) - 1),
          Version |-> SubSeq(gv, IndexSlash(gv) + 1, Len(gv))]
    ELSE [ok |-> FALSE, Group |-> EmptyStr, Version |-> EmptyStr]

\* metav1.APIResource, the fields the walker reads
APIResource(name, kind, namespaced) ==
    [Name |-> name, Kind |-> kind, Namespaced |-> namespaced]

\* metav1.APIResourceList
APIResourceList(gv, resources) == [GroupVersion |-> gv, APIResources |-> resources]

\* Two answers of disc.ServerPreferredResources().  The first is an
\* OpenShift-like surface; the second holds the odd cases: an unparsable
\* groupVersion, an empty groupVersion, a core resource of kind Event under
\* another name, the non-core events group, a group without resources.
Snapshot1 ==
    << APIResourceList(s_v1,
          << APIResource(s_pods, "Pod", TRUE),
             APIResource(s_pods_status, "Pod", TRUE),
             APIResource(s_events, "Event", TRUE),
             APIResource(s_nodes, "Node", FALSE),
             APIResource(s_configmaps, "ConfigMap", TRUE) >>),
       APIResourceList(g_rbac \o <<Slash>> \o s_v1,
          << APIResource(s_roles, "Role", TRUE) >>),
       APIResourceList(g_openshift \o <<Slash>> \o s_v1,
          << APIResource(s_roles, "Role", TRUE) >>) >>

Snapshot2 ==
    << APIResourceList(<<"a", Slash, "b", Slash, "c">>,
          << APIResource(s_things, "Thing", FALSE) >>),
       APIResourceList(EmptyStr,
          << APIResource(s_things, "Thing", FALSE) >>),
       APIResourceList(s_v1,
          << APIResource(s_evts, "Event", TRUE),
             APIResource(s_pods_status, "Pod", TRUE),
             APIResource(s_nodes, "Node", FALSE) >>),
       APIResourceList(g_rbac \o <<Slash>> \o s_v1, << >>),
       APIResourceList(s_events_k8s_io \o <<Slash>> \o s_v1,
          << APIResource(s_events, "Event", TRUE) >>),
       APIResourceList(g_openshift \o <<Slash>> \o s_v1,
          << APIResource(s_roles, "Role", TRUE) >>) >>

Snapshots == {Snapshot1, Snapshot2}

\* schema.GroupVersionResource
GroupVersionResource(group, version, resource) ==
    [Group |-> group, Version |-> version, Resource |-> resource]

\* Contents of $HOME/.get-resources-excluded-groups after getExcludedGroups:
\* a set of group names; blank lines are dropped, so "" is never a member.
ExcludedChoices == { {}, {g_openshift}, {g_rbac, s_events_k8s_io} }

(* ------------------------------ cluster -------------------------------- *)

\* metav1.NamespaceAll
NamespaceAll == EmptyStr

\* What the API server holds for a plural: <<namespace, name, kind, created>>.
\* configmaps in `default` carry every creation instant of TimeRange; the pod
\* `dns` has no creationTimestamp (the zero instant).
StoredObject(ns, name, kind, created) ==
    [namespace |-> ns, name |-> name, kind |-> kind, created |-> created]

ClusterObjects(resource) ==
    IF resource = s_pods
    THEN << StoredObject(s_default, s_web, "Pod", 1),
            StoredObject(s_kube_system, s_dns, "Pod", 0) >>
    ELSE IF resource = s_configmaps
    THEN [i \in 1..(MaxTime + 2) |->
             StoredObject(s_default, <<"c", ToString(i - 2)>>, "ConfigMap", i - 2)]
         \o << StoredObject(s_kube_system, s_cfg, "ConfigMap", MaxTime) >>
    ELSE IF resource = s_nodes
    THEN << StoredObject(EmptyStr, s_n1, "Node", 1) >>
    ELSE IF resource = s_roles
    THEN << StoredObject(s_default, s_admin, "Role", 1),
            StoredObject(s_kube_system, s_admin, "Role", MaxTime) >>
    ELSE IF resource = s_events
    THEN << StoredObject(s_default, s_ev, "Event", 1) >>
    ELSE << >>

\* apiVersion of an object served through (group, version)
APIVersionOf(gvr) ==
    IF gvr.Group = EmptyStr THEN gvr.Version
    ELSE gvr.Group \o <<Slash>> \o gvr.Version

\* The items of dyn.Resource(gvr).Namespace(ns).List(...) when it succeeds:
\* the objects of the plural in namespace ns, or in every namespace when ns is
\* metav1.NamespaceAll, in the server's order.
ServerList(gvr, ns) ==
    LET stored == SelectSeq(ClusterObjects(gvr.Resource),
                            LAMBDA o : ns = NamespaceAll \/ o.namespace = ns)
    IN  [i \in 1..Len(stored) |->
            [kind |-> stored[i].kind, apiVersion |-> APIVersionOf(gvr),
             namespace |-> stored[i].namespace, name |-> stored[i].name,
             created |-> stored[i].created]]

(* --------------------------- output and sinks -------------------------- *)

\* filepath.Clean on the paths the model builds (no "." or ".." element):
\* runs of separators collapse to one.
Clean(p) ==
    SelectSeq([i \in 1..Len(p) |-> IF i > 1 /\ p[i] = Slash /\ p[i-1] = Slash
                                   THEN "" ELSE p[i]],
              LAMBDA c : c # "")

\* strings.Join(nonEmpty, "/") over the non-empty elements.
JoinRaw(elems) ==
    LET ne == SelectSeq(elems, LAMBDA e : e # EmptyStr)
        acc[n \in 0..Len(ne)] ==
            IF n = 0 THEN EmptyStr
            ELSE IF n = 1 THEN ne[1]
            ELSE acc[n - 1] \o <<Slash>> \o ne[n]
    IN  acc[Len(ne)]

\* filepath.Join: empty elements are ignored, the rest are joined with the
\* separator and the result is cleaned.
Join(elems) == Clean(JoinRaw(elems))

\* treeFilename that prefixes only the group named exactly openshift.io.
treeFilename_exactGroup(gvr, item) ==
    IF gvr.Group = s_openshift_io
    THEN s_openshift_ \o item.name \o s_yaml
    ELSE item.name \o s_yaml

\* The file name chosen at main.go:372-377.
treeFilename(gvr, item) ==
    IF HasSuffix(gvr.Group, s_openshift_io)
    THEN s_openshift_ \o item.name \o s_yaml
    ELSE item.name \o s_yaml

\* The path built at main.go:370 and 378.
treePath(filter, gvr, item) ==
    LET dir == Join(<<filter.OutputDir, item.namespace, gvr.Resource>>)
    IN  Join(<<dir, treeFilename(gvr, item)>>)

\* writeYAML: the object's JSON payload re-encoded as YAML.
writeYAML(item) == [encoding |-> "yaml", object |-> item]

\* timeFilterDrops with an inclusive --before bound.
timeFilterDrops_inclusiveBefore(created, filter) ==
    \/ ~IsZero(filter.Before) /\ created > filter.Before
    \/ ~IsZero(filter.After) /\ ~(created > filter.After)
    \/ ~IsZero(filter.Start) /\ (created < filter.Start \/ created > filter.End)

\* The three `continue` tests of the time filter, main.go:353-361.
timeFilterDrops(created, filter) ==
    \/ ~IsZero(filter.Before) /\ ~(created < filter.Before)
    \/ ~IsZero(filter.After) /\ ~(created > filter.After)
    \/ ~IsZero(filter.Start) /\ (created < filter.Start \/ created > filter.End)

\* The fields of one CSV record, main.go:387 and 389.
csvRecord(gvr, item, withData) ==
    LET base == << item.kind, gvr.Resource, item.apiVersion, item.namespace,
                   item.name, FormatUTC(item.created) >>
    IN  IF withData THEN Append(base, [encoding |-> "json", object |-> item]) ELSE base

\* What the loop body of filterAndOutput does with one item: where it ends
\* (dropped by the time filter, failed to serialize, routed to the tree sink
\* with or without a created file, or routed to a tabular sink).
sinkOf(item, gvr, filter, env) ==
    IF timeFilterDrops(item.created, filter) THEN "dropped"
    ELSE IF item.name \in env.unmarshalable THEN "marshalError"
    ELSE IF filter.OutputDir # EmptyStr
    THEN IF item.name \in env.uncreatable THEN "createError" ELSE "tree"
    ELSE IF filter.ResourceData THEN "csvData"
    ELSE "csv"

\* loopBody in which the tree branch falls through to the CSV writer.
loopBody_treeAlsoWritesRow(item, gvr, filter, env) ==
    LET sink == sinkOf(item, gvr, filter, env)
    IN  [sink |-> sink,
         rows |-> IF sink = "csvData"
                  THEN << [type |-> "row", fields |-> csvRecord(gvr, item, TRUE)] >>
                  ELSE IF sink \in {"csv", "tree"}
                  THEN << [type |-> "row", fields |-> csvRecord(gvr, item, FALSE)] >>
                  ELSE << >>,
         files |-> IF sink = "tree"
                   THEN << [path |-> treePath(filter, gvr, item), gvr |-> gvr,
                            item |-> item, content |-> writeYAML(item)] >>
                   ELSE << >>]

\* One iteration of the loop of filterAndOutput, main.go:351-394: the branch
\* the item takes, the CSV record it adds and the file it writes.
loopBody(item, gvr, filter, env) ==
    LET sink == sinkOf(item, gvr, filter, env)
    IN  [sink |-> sink,
         rows |-> IF sink = "csvData"
                  THEN << [type |-> "row", fields |-> csvRecord(gvr, item, TRUE)] >>
                  ELSE IF sink = "csv"
                  THEN << [type |-> "row", fields |-> csvRecord(gvr, item, FALSE)] >>
                  ELSE << >>,
         files |-> IF sink = "tree"
                   THEN << [path |-> treePath(filter, gvr, item), gvr |-> gvr,
                            item |-> item, content |-> writeYAML(item)] >>
                   ELSE << >>]

\* filterAndOutput(items, gvr, filter): the rows flushed to standard output,
\* the files written and, per item, the branch it took, all in item order.
\* `call` is the index of the list call the items came from.
filterAndOutput(items, gvr, filter, env, call) ==
    LET withRow == SelectSeq(items, LAMBDA it : loopBody(it, gvr, filter, env).rows # << >>)
        withFile == SelectSeq(items, LAMBDA it : loopBody(it, gvr, filter, env).files # << >>)
    IN  [rows |-> [i \in 1..Len(withRow) |->
                      loopBody(withRow[i], gvr, filter, env).rows[1]],
         files |-> [i \in 1..Len(withFile) |->
                      loopBody(withFile[i], gvr, filter, env).files[1]],
         handled |-> [i \in 1..Len(items) |->
                        [item |-> items[i], gvr |-> gvr,
                         sink |-> loopBody(items[i], gvr, filter, env).sink,
                         call |-> call]]]

(* ------------------------------- state --------------------------------- *)

VARIABLES
    flags,      \* the parsed command line (main.go:118-131)
    env,        \* the collaborators: discovery answer, exclusion file, failures
    pc,         \* where the run is
    filter,     \* the ResourceFilter built from the flags
    params,     \* the arguments processResources was called with
    gi, ri, ni, \* walker position: group, resource in group, namespaces done
    calls,      \* list calls issued, in order, with their outcome and the
                \* walker position (group, resource) that issued them
    stdout,     \* lines written to standard output
    files,      \* files written by the tree sink, in order
    handled,    \* the branch filterAndOutput took for every item it was given
    logs,       \* lines written through log (standard error)
    exitCode    \* process exit status, -1 while running

vars == << flags, env, pc, filter, params, gi, ri, ni, calls, stdout, files,
           handled, logs, exitCode >>

\* A nil []string; the program never builds a non-nil empty list.
Nil == << >>

NoParams == [namespaces |-> Nil, includeCluster |-> FALSE,
             processNamespacedResources |-> FALSE]

(* ------------------------------ inputs --------------------------------- *)

NsAlphabet == {EmptyStr, Star, s_default, s_kube_system}
NsLists == UNION {[1..n -> NsAlphabet] : n \in 0..MaxNamespaces}

Flags(namespaces, excludeCluster, beforeStr, afterStr, startStr, endStr, outputDir, resourceData) ==
    [namespaces |-> namespaces, excludeCluster |-> excludeCluster,
     beforeStr |-> beforeStr, afterStr |-> afterStr, startStr |-> startStr,
     endStr |-> endStr, outputDir |-> outputDir, resourceData |-> resourceData]

Env(apiResources, excludedGroups, failing, unmarshalable, uncreatable) ==
    [apiResources |-> apiResources, excludedGroups |-> excludedGroups,
     failing |-> failing, unmarshalable |-> unmarshalable,
     uncreatable |-> uncreatable]

\* List calls that return an error, as <<plural, namespace argument>> pairs:
\* none, some, or every call the walker can make.
AllPlurals == {s_pods, s_pods_status, s_events, s_evts, s_nodes, s_configmaps,
               s_roles, s_things}
EveryListCall == AllPlurals \X NsAlphabet
FailingChoices ==
    { {}, {<<s_pods, NamespaceAll>>, <<s_pods, s_default>>, <<s_nodes, NamespaceAll>>,
           <<s_roles, s_default>>},
      EveryListCall }

\* Runs that vary the mode, the discovery answer, the exclusion set and the
\* failing calls, under three output configurations.
InitWalk ==
    /\ \E nl \in NsLists, ex \in BOOLEAN,
          o \in { <<EmptyTs, EmptyStr, FALSE>>, <<EmptyTs, s_out, FALSE>>,
                  <<Rfc3339(0, 0), EmptyStr, TRUE>> } :
          flags = Flags(nl, ex, EmptyTs, o[1], EmptyTs, EmptyTs, o[2], o[3])
    /\ \E snap \in Snapshots, excl \in ExcludedChoices, fail \in FailingChoices :
          env = Env(snap, excl, fail, {}, {})

\* Runs that vary the six inputs of the filter builder over every
\* combination, in the mode that lists everything.
InitFilter ==
    /\ \E b \in TsStrings, a \in TsStrings, st \in TsStrings, en \in TsStrings,
          o \in {EmptyStr, s_out}, rd \in BOOLEAN :
          flags = Flags(<< >>, FALSE, b, a, st, en, o, rd)
    /\ env = Env(Snapshot1, {}, {}, {}, {})

\* Runs with objects that fail to serialize or whose file cannot be created.
InitSink ==
    /\ \E o \in {<<EmptyStr, FALSE>>, <<EmptyStr, TRUE>>, <<s_out, FALSE>>},
          nl \in {<< >>, <<s_default>>} :
          flags = Flags(nl, FALSE, EmptyTs, EmptyTs, EmptyTs, EmptyTs, o[1], o[2])
    /\ \E um \in {{}, {s_web}}, uc \in {{}, {s_admin}} :
          /\ um \cup uc # {}
          /\ env = Env(Snapshot1, {}, {}, um, uc)

Init ==
    /\ (InitWalk \/ InitFilter \/ InitSink)
    /\ pc = "start"
    /\ filter = ZeroFilter
    /\ params = NoParams
    /\ gi = 0 /\ ri = 0 /\ ni = 0
    /\ calls = << >>
    /\ stdout = << >>
    /\ files = << >>
    /\ handled = << >>
    /\ logs = << >>
    /\ exitCode = -1

(* ------------------------------- main ---------------------------------- *)

\* main.go:133-136: build the filter; a validation error is fatal.
ValidateFlags ==
    /\ pc = "start"
    /\ LET r == validateAndBuildFilter(flags.beforeStr, flags.afterStr, flags.startStr,
                                       flags.endStr, flags.outputDir, flags.resourceData)
       IN  IF r.err # NoError
           THEN /\ pc' = "fatal"
                /\ exitCode' = 1
                /\ logs' = Append(logs, "Flag validation error")
                /\ UNCHANGED filter
           ELSE /\ pc' = "kubeconfig"
                /\ filter' = r.filter
                /\ UNCHANGED << exitCode, logs >>
    /\ UNCHANGED << flags, env, params, gi, ri, ni, calls, stdout, files, handled >>

\* main.go:139-145: load the kubeconfig; failure is fatal.
LoadKubeconfig ==
    /\ pc = "kubeconfig"
    /\ \E ok \in BOOLEAN :
          IF ok
          THEN /\ pc' = "header"
               /\ UNCHANGED << exitCode, logs >>
          ELSE /\ pc' = "fatal"
               /\ exitCode' = 1
               /\ logs' = Append(logs, "Failed to load kubeconfig")
    /\ UNCHANGED << flags, env, filter, params, gi, ri, ni, calls, stdout, files, handled >>

HeaderWithData ==
    [type |-> "header",
     fields |-> <<"kind", "plural", "apiversion", "namespace", "name",
                  "creationtimestamp", "data">>]
HeaderPlain ==
    [type |-> "header",
     fields |-> <<"kind", "plural", "apiversion", "namespace", "name",
                  "creationtimestamp">>]

\* headerLines with a plain `else`: the six-column header is printed whenever
\* --resource-data is off.
headerLines_alwaysHeader(resourceData, outputDir) ==
    IF resourceData THEN << HeaderWithData >> ELSE << HeaderPlain >>

\* The header lines printed at main.go:147-151.
headerLines(resourceData, outputDir) ==
    IF resourceData THEN << HeaderWithData >>
    ELSE IF outputDir = EmptyStr THEN << HeaderPlain >>
    ELSE << >>

PrintHeader ==
    /\ pc = "header"
    /\ stdout' = stdout \o headerLines(flags.resourceData, flags.outputDir)
    /\ pc' = "decide"
    /\ UNCHANGED << flags, env, filter, params, gi, ri, ni, calls, files, handled,
                    logs, exitCode >>

\* main.go:238-252: the four wrappers and the arguments they pass on.
processAllResources ==
    [namespaces |-> Nil, includeCluster |-> TRUE, processNamespacedResources |-> TRUE]
processNamespacesAndCluster(namespaces) ==
    [namespaces |-> namespaces, includeCluster |-> TRUE,
     processNamespacedResources |-> TRUE]
processOnlyNamespaces(namespaces) ==
    [namespaces |-> namespaces, includeCluster |-> FALSE,
     processNamespacedResources |-> TRUE]
processOnlyClusterResources ==
    [namespaces |-> Nil, includeCluster |-> TRUE, processNamespacedResources |-> FALSE]

NothingToProcess ==
    [type |-> "info",
     fields |-> <<"Nothing to process: no namespaces and cluster excluded">>]

\* decision with the "*" case tested before the [""] case and the exclude
\* flag honoured for [""].
decision_excludeBeforeClusterOnly(namespaces, excludeCluster) ==
    IF Len(namespaces) = 0
    THEN IF excludeCluster THEN [noop |-> TRUE, args |-> NoParams]
         ELSE [noop |-> FALSE, args |-> processAllResources]
    ELSE IF Len(namespaces) = 1 /\ namespaces[1] = EmptyStr
    THEN IF excludeCluster THEN [noop |-> TRUE, args |-> NoParams]
         ELSE [noop |-> FALSE, args |-> processOnlyClusterResources]
    ELSE IF contains(namespaces, Star)
    THEN IF excludeCluster THEN [noop |-> FALSE, args |-> processOnlyNamespaces(<<Star>>)]
         ELSE [noop |-> FALSE, args |-> processAllResources]
    ELSE IF excludeCluster THEN [noop |-> FALSE, args |-> processOnlyNamespaces(namespaces)]
    ELSE [noop |-> FALSE, args |-> processNamespacesAndCluster(namespaces)]

\* The switch at main.go:154-178: the no-op, or the arguments of
\* processResources.
NoOp == [noop |-> TRUE, args |-> NoParams]
Run(args) == [noop |-> FALSE, args |-> args]

decision(namespaces, excludeCluster) ==
    IF Len(namespaces) = 0
    THEN IF excludeCluster THEN NoOp ELSE Run(processAllResources)
    ELSE IF Len(namespaces) = 1 /\ namespaces[1] = EmptyStr
    THEN Run(processOnlyClusterResources)
    ELSE IF contains(namespaces, Star)
    THEN IF excludeCluster THEN Run(processOnlyNamespaces(<<Star>>))
         ELSE Run(processAllResources)
    ELSE IF excludeCluster THEN Run(processOnlyNamespaces(namespaces))
    ELSE Run(processNamespacesAndCluster(namespaces))

Decide ==
    /\ pc = "decide"
    /\ LET d == decision(flags.namespaces, flags.excludeCluster)
       IN  IF d.noop
           THEN /\ stdout' = Append(stdout, NothingToProcess)
                /\ pc' = "exit"
                /\ exitCode' = 0
                /\ UNCHANGED params
           ELSE /\ params' = d.args
                /\ pc' = "discover"
                /\ UNCHANGED << stdout, exitCode >>
    /\ UNCHANGED << flags, env, filter, gi, ri, ni, calls, files, handled, logs >>

(* -------------------------- processResources --------------------------- *)

\* main.go:286-291: discovery; failure is fatal.  The exclusion file is read
\* here (env.excludedGroups).
Discover ==
    /\ pc = "discover"
    /\ \E ok \in BOOLEAN :
          IF ok
          THEN /\ pc' = "walk"
               /\ gi' = 1 /\ ri' = 0 /\ ni' = 0
               /\ UNCHANGED << exitCode, logs >>
          ELSE /\ pc' = "fatal"
               /\ exitCode' = 1
               /\ logs' = Append(logs, "Failed to discover resources")
               /\ UNCHANGED << gi, ri, ni >>
    /\ UNCHANGED << flags, env, filter, params, calls, stdout, files, handled >>

\* main.go:294-301: a group is skipped when its groupVersion does not parse
\* or its group is excluded.
skipGroup(groupVersion, excludedGroups) ==
    LET gv == ParseGroupVersion(groupVersion)
    IN  ~gv.ok \/ gv.Group \in excludedGroups

\* skipResource without the sub-resource test.
skipResource_noSubresourceTest(gv, resource) ==
    /\ gv.Group = EmptyStr
    /\ gv.Version = s_v1
    /\ (resource.Name = s_events \/ resource.Kind = "Event")

\* main.go:304-312: sub-resources and core/v1 events are skipped.
skipResource(gv, resource) ==
    \/ ContainsSlash(resource.Name)
    \/ /\ gv.Group = EmptyStr
       /\ gv.Version = s_v1
       /\ (resource.Name = s_events \/ resource.Kind = "Event")

\* allNamespaces that takes any one-entry list for "*".
allNamespaces_anySingleEntry(namespaces) ==
    namespaces = Nil \/ Len(namespaces) = 1

\* main.go:317: the test that picks the single all-namespaces call.
allNamespaces(namespaces) ==
    namespaces = Nil \/ (Len(namespaces) = 1 /\ namespaces[1] = Star)

\* Which branch of main.go:316-341 a resource takes.
branchOf(resource, args) ==
    IF resource.Namespaced /\ args.processNamespacedResources
    THEN IF allNamespaces(args.namespaces) THEN "allNamespaces" ELSE "eachNamespace"
    ELSE IF ~resource.Namespaced /\ args.includeCluster THEN "cluster"
    ELSE "none"

\* The walker's current group and resource.
curGroup == env.apiResources[gi]
curGV == ParseGroupVersion(curGroup.GroupVersion)
curResource == curGroup.APIResources[ri]
curGVR == GroupVersionResource(curGV.Group, curGV.Version, curResource.Name)
atResource ==
    /\ pc = "walk"
    /\ gi <= Len(env.apiResources)
    /\ ri >= 1 /\ ri <= Len(curGroup.APIResources)

\* Does this list call return an error?
listFails(gvr, ns) == <<gvr.Resource, ns>> \in env.failing

\* One list call and, when it succeeds, filterAndOutput on its items.
doList(gvr, ns) ==
    LET n == Len(calls) + 1
        ok == ~listFails(gvr, ns)
        out == IF ok THEN filterAndOutput(ServerList(gvr, ns), gvr, filter, env, n)
               ELSE [rows |-> << >>, files |-> << >>, handled |-> << >>]
    IN  /\ calls' = Append(calls, [gvr |-> gvr, ns |-> ns, ok |-> ok,
                                    gi |-> gi, ri |-> ri])
        /\ stdout' = stdout \o out.rows
        /\ files' = files \o out.files
        /\ handled' = handled \o out.handled

\* Top of the group loop, main.go:293-301.
BeginGroup ==
    /\ pc = "walk"
    /\ gi <= Len(env.apiResources)
    /\ ri = 0
    /\ IF skipGroup(curGroup.GroupVersion, env.excludedGroups)
       THEN gi' = gi + 1 /\ ri' = 0
       ELSE gi' = gi /\ ri' = 1
    /\ UNCHANGED << flags, env, pc, filter, params, ni, calls, stdout, files,
                    handled, logs, exitCode >>

\* The resource loop of a group is exhausted.
EndGroup ==
    /\ pc = "walk"
    /\ gi <= Len(env.apiResources)
    /\ ri > Len(curGroup.APIResources)
    /\ gi' = gi + 1 /\ ri' = 0
    /\ UNCHANGED << flags, env, pc, filter, params, ni, calls, stdout, files,
                    handled, logs, exitCode >>

\* A resource that is skipped (main.go:305-312) or that matches neither
\* branch of main.go:316 and 335.
SkipResource ==
    /\ atResource
    /\ skipResource(curGV, curResource) \/ branchOf(curResource, params) = "none"
    /\ ri' = ri + 1
    /\ UNCHANGED << flags, env, pc, filter, params, gi, ni, calls, stdout, files,
                    handled, logs, exitCode >>

\* main.go:317-323: one call over all namespaces.
ListAllNamespaces ==
    /\ atResource
    /\ ~skipResource(curGV, curResource)
    /\ branchOf(curResource, params) = "allNamespaces"
    /\ doList(curGVR, NamespaceAll)
    /\ ri' = ri + 1
    /\ UNCHANGED << flags, env, pc, filter, params, gi, ni, logs, exitCode >>

\* ListNamespace with `break` in place of `continue` on a list error.
ListNamespace_breakOnError ==
    /\ atResource
    /\ ~skipResource(curGV, curResource)
    /\ branchOf(curResource, params) = "eachNamespace"
    /\ doList(curGVR, params.namespaces[ni + 1])
    /\ IF ni + 1 = Len(params.namespaces) \/ listFails(curGVR, params.namespaces[ni + 1])
       THEN ni' = 0 /\ ri' = ri + 1
       ELSE ni' = ni + 1 /\ ri' = ri
    /\ UNCHANGED << flags, env, pc, filter, params, gi, logs, exitCode >>

\* main.go:326-333: one iteration of the namespace loop.
ListNamespace ==
    /\ atResource
    /\ ~skipResource(curGV, curResource)
    /\ branchOf(curResource, params) = "eachNamespace"
    /\ doList(curGVR, params.namespaces[ni + 1])
    /\ IF ni + 1 = Len(params.namespaces)
       THEN ni' = 0 /\ ri' = ri + 1
       ELSE ni' = ni + 1 /\ ri' = ri
    /\ UNCHANGED << flags, env, pc, filter, params, gi, logs, exitCode >>

\* main.go:335-341: one unscoped call for a cluster-scoped resource.
ListCluster ==
    /\ atResource
    /\ ~skipResource(curGV, curResource)
    /\ branchOf(curResource, params) = "cluster"
    /\ doList(curGVR, NamespaceAll)
    /\ ri' = ri + 1
    /\ UNCHANGED << flags, env, pc, filter, params, gi, ni, logs, exitCode >>

DoneLine == "Done collecting resources."

\* main.go:344 and the return to main: the walk is over.
Finish ==
    /\ pc = "walk"
    /\ gi > Len(env.apiResources)
    /\ logs' = Append(logs, DoneLine)
    /\ pc' = "done"
    /\ exitCode' = 0
    /\ UNCHANGED << flags, env, filter, params, gi, ri, ni, calls, stdout, files,
                    handled >>

Next ==
    \/ ValidateFlags
    \/ LoadKubeconfig
    \/ PrintHeader
    \/ Decide
    \/ Discover
    \/ BeginGroup
    \/ EndGroup
    \/ SkipResource
    \/ ListAllNamespaces
    \/ ListNamespace
    \/ ListCluster
    \/ Finish

Spec == Init /\ [][Next]_vars

(* ------------------------------ helpers -------------------------------- *)

Range(seq) == {seq[i] : i \in 1..Len(seq)}

\* A temporal field of a Filter is set when it is not the zero instant, which
\* is what the time filter tests.
IsSet(t) == t # 0

(* ------------------------------- claims -------------------------------- *)

\* The four invariants of a Filter.
FilterInvariants(f) ==
    /\ ~(IsSet(f.Before) /\ IsSet(f.After))
    /\ IsSet(f.Start) <=> IsSet(f.End)
    /\ ~((IsSet(f.Start) \/ IsSet(f.End)) /\ (IsSet(f.Before) \/ IsSet(f.After)))
    /\ ~(f.ResourceData /\ f.OutputDir # EmptyStr)

\* C1: whatever the six inputs, a Filter that validateAndBuildFilter returns
\* without error satisfies the four invariants: before and after are not both
\* set, start and end are both set or both unset, {start,end} is not set
\* together with before or after, and inlineData never comes with an
\* outputDir.  Checked in the state right after the builder returned.
C1_FilterSatisfiesInvariants ==
    pc = "kubeconfig" => FilterInvariants(filter)

\* The time predicate as the specification states it.
PassesWindow(t, f) ==
    /\ (~IsSet(f.Before) \/ t < f.Before)
    /\ (~IsSet(f.After) \/ t > f.After)
    /\ (~IsSet(f.Start) \/ (f.Start <= t /\ t <= f.End))

SinkBranches == {"tree", "createError", "csvData", "csv"}
EmittingBranches == {"tree", "csvData", "csv"}
Rows == SelectSeq(stdout, LAMBDA l : l.type = "row")

\* C2: for every Filter and creation time t, filterAndOutput lets an object
\* past the time filter, on to serialization and a sink, if and only if
\* (before unset or t < before) and (after unset or t > after) and (start
\* unset or start <= t <= end); an object that serializes reaches a sink
\* exactly when the predicate holds, and every record or file on the output
\* belongs to an object for which it holds.
C2_TimeFilterPredicate ==
    /\ \A i \in 1..Len(handled) :
          LET h == handled[i]
              pass == PassesWindow(h.item.created, filter)
          IN  /\ h.sink # "dropped" <=> pass
              /\ h.sink \in SinkBranches => pass
              /\ (pass /\ h.item.name \notin env.unmarshalable) => h.sink \in SinkBranches
    /\ \A i \in 1..Len(Rows) :
          \E t \in TimeRange : /\ Rows[i].fields[6] = FormatUTC(t)
                               /\ PassesWindow(t, filter)
    /\ \A i \in 1..Len(files) : PassesWindow(files[i].item.created, filter)
    /\ Len(Rows) + Len(files)
         = Cardinality({i \in 1..Len(handled) : handled[i].sink \in EmittingBranches})

\* C2 witness: under a --before bound, an object created exactly at the bound
\* was dropped and an object created earlier was kept.
C2_Witness ==
    /\ IsSet(filter.Before)
    /\ \E i, j \in 1..Len(handled) :
          /\ handled[i].item.created = filter.Before
          /\ handled[i].sink = "dropped"
          /\ handled[j].item.created < filter.Before
          /\ handled[j].sink \in EmittingBranches

(* ---------------- the walk, stated from the specification --------------- *)

\* The descriptor and the discovery group a list call was issued for.
GroupOfCall(c) == env.apiResources[c.gi]
DescriptorOfCall(c) == GroupOfCall(c).APIResources[c.ri]

\* A groupVersion string parses unless it holds more than one slash; the
\* group is what precedes the slash (empty without one), the version the rest.
Parses(gvString) == CountSlash(gvString) <= 1
GroupPart(gvString) ==
    IF CountSlash(gvString) = 1 THEN SubSeq(gvString, 1, IndexSlash(gvString) - 1)
    ELSE EmptyStr
VersionPart(gvString) ==
    IF CountSlash(gvString) = 1
    THEN SubSeq(gvString, IndexSlash(gvString) + 1, Len(gvString))
    ELSE gvString

IsSubresource(name) == Slash \in Range(name)
IsCoreEvent(gvString, r) ==
    /\ GroupPart(gvString) = EmptyStr
    /\ VersionPart(gvString) = s_v1
    /\ (r.Name = s_events \/ r.Kind = "Event")

\* The discovery skip rules: which descriptors are emitted.
Survives(g, r) ==
    /\ Parses(g.GroupVersion)
    /\ GroupPart(g.GroupVersion) \notin env.excludedGroups
    /\ ~IsSubresource(r.Name)
    /\ ~IsCoreEvent(g.GroupVersion, r)

\* The mode table.
ModeOf(namespaces, excludeCluster) ==
    IF namespaces = << >> THEN (IF excludeCluster THEN "NOOP" ELSE "ALL")
    ELSE IF namespaces = << EmptyStr >> THEN "CLUSTER-ONLY"
    ELSE IF Star \in Range(namespaces)
    THEN (IF excludeCluster THEN "ALL-NAMESPACES" ELSE "ALL")
    ELSE IF excludeCluster THEN "NAMED-ONLY" ELSE "NAMED+CLUSTER"

Mode == ModeOf(flags.namespaces, flags.excludeCluster)
NamedMode == Mode \in {"NAMED-ONLY", "NAMED+CLUSTER"}

\* The namespace arguments a descriptor is listed with under a mode.
TargetsOf(mode, namespaces, r) ==
    IF r.Namespaced
    THEN IF mode \in {"ALL", "ALL-NAMESPACES"} THEN << NamespaceAll >>
         ELSE IF mode \in {"NAMED-ONLY", "NAMED+CLUSTER"} THEN namespaces
         ELSE << >>
    ELSE IF mode \in {"ALL", "CLUSTER-ONLY", "NAMED+CLUSTER"} THEN << NamespaceAll >>
         ELSE << >>

\* The list calls of a whole run, in discovery order, when no call aborts it.
RECURSIVE PlanFrom(_, _)
PlanFrom(g, r) ==
    IF g > Len(env.apiResources) THEN << >>
    ELSE IF r > Len(env.apiResources[g].APIResources) THEN PlanFrom(g + 1, 1)
    ELSE LET grp == env.apiResources[g]
             res == grp.APIResources[r]
             ts == IF Survives(grp, res) THEN TargetsOf(Mode, flags.namespaces, res)
                   ELSE << >>
         IN  [i \in 1..Len(ts) |-> [gi |-> g, ri |-> r, ns |-> ts[i]]]
             \o PlanFrom(g, r + 1)
Plan == PlanFrom(1, 1)

Issued == [i \in 1..Len(calls) |-> [gi |-> calls[i].gi, ri |-> calls[i].ri,
                                     ns |-> calls[i].ns]]
IsPrefix(a, b) == Len(a) <= Len(b) /\ SubSeq(b, 1, Len(a)) = a

\* The namespace arguments of the calls issued for one descriptor, in order.
NsArgsAt(g, r) ==
    LET mine == SelectSeq(calls, LAMBDA c : c.gi = g /\ c.ri = r)
    IN  [i \in 1..Len(mine) |-> mine[i].ns]

Positions ==
    UNION { {<<g, r>> : r \in 1..Len(env.apiResources[g].APIResources)} :
            g \in 1..Len(env.apiResources) }

(* ------------------------------ C3 .. C10 ------------------------------ *)

\* C3: no list call is issued for, and no object is emitted of, a resource
\* whose name contains '/', a resource of group "" version "v1" named
\* "events" or of kind "Event", or a resource whose parsed group is in the
\* exclusion set; a group whose groupVersion does not parse gets no call.
C3_SkipRules ==
    /\ \A i \in 1..Len(calls) :
          LET c == calls[i]
              g == GroupOfCall(c)
              r == DescriptorOfCall(c)
          IN  /\ c.gvr.Resource = r.Name
              /\ ~IsSubresource(c.gvr.Resource)
              /\ ~(c.gvr.Group = EmptyStr /\ c.gvr.Version = s_v1
                   /\ (r.Name = s_events \/ r.Kind = "Event"))
              /\ c.gvr.Group \notin env.excludedGroups
              /\ Parses(g.GroupVersion)
              /\ c.gvr.Group = GroupPart(g.GroupVersion)
              /\ c.gvr.Version = VersionPart(g.GroupVersion)
    /\ \A i \in 1..Len(handled) :
          /\ handled[i].call \in 1..Len(calls)
          /\ handled[i].gvr = calls[handled[i].call].gvr

\* C3 witness: a finished run over the discovery answer that holds an
\* unparsable group, a sub-resource, a core Event kind and an excluded group,
\* in which namespaced and cluster-scoped resources were listed.
C3_Witness ==
    /\ pc = "done"
    /\ env.apiResources = Snapshot2
    /\ env.excludedGroups = {g_openshift}
    /\ params.processNamespacedResources /\ params.includeCluster
    /\ Len(calls) >= 3

C5_ExcludeClusterSuppressesCluster ==
    flags.excludeCluster =>
        /\ \A i \in 1..Len(calls) : DescriptorOfCall(calls[i]).Namespaced
        /\ \A i \in 1..Len(handled) :
              DescriptorOfCall(calls[handled[i].call]).Namespaced

Headers == SelectSeq(stdout, LAMBDA l : l.type = "header")
PastHeader ==
    \/ pc \in {"decide", "discover", "walk", "done", "exit"}
    \/ pc = "fatal" /\ logs # << >> /\ logs[Len(logs)] = "Failed to discover resources"

\* C6: in every run that passes flag validation and kubeconfig loading the
\* number of header lines on standard output is zero when outputDir is
\* non-empty and one otherwise: the seven-column header ending in "data" when
\* inlineData is true, the six-column header when it is false.
C6_HeaderCount ==
    /\ PastHeader =>
          IF flags.outputDir # EmptyStr THEN Len(Headers) = 0
          ELSE /\ Len(Headers) = 1
               /\ stdout[1].type = "header"
               /\ Len(stdout[1].fields) = (IF flags.resourceData THEN 7 ELSE 6)
               /\ flags.resourceData <=> stdout[1].fields[Len(stdout[1].fields)] = "data"
    /\ ~PastHeader => Len(Headers) = 0

\* C6 witness: a finished tabular run with several list calls and rows.
C6_Witness ==
    /\ pc = "done"
    /\ flags.outputDir = EmptyStr
    /\ Len(calls) >= 3
    /\ Len(Rows) >= 2

\* C7: every object that passes the time filter and serializes is handled by
\* exactly one sink, decided by the Filter alone: the tree sink (a file, no
\* CSV row) when outputDir is non-empty, the tabular sink with the data
\* column when inlineData is true, the tabular sink without it otherwise; no
\* object is both written to a file and emitted as a CSV row.
C7_ExactlyOneSink ==
    /\ \A i \in 1..Len(handled) :
          handled[i].sink \notin {"dropped", "marshalError"} =>
             handled[i].sink \in
                (IF filter.OutputDir # EmptyStr THEN {"tree", "createError"}
                 ELSE IF filter.ResourceData THEN {"csvData"} ELSE {"csv"})
    /\ filter.OutputDir # EmptyStr => Len(Rows) = 0
    /\ filter.OutputDir = EmptyStr => Len(files) = 0
    /\ \A i \in 1..Len(Rows) :
          Len(Rows[i].fields) = (IF filter.ResourceData THEN 7 ELSE 6)
    /\ Len(files) = Cardinality({i \in 1..Len(handled) : handled[i].sink = "tree"})
    /\ Len(Rows) = Cardinality({i \in 1..Len(handled) :
                                   handled[i].sink \in {"csv", "csvData"}})

\* C7 witness: a finished tree-sink run that wrote files while one object
\* failed to serialize or to get its file.
C7_Witness ==
    /\ pc = "done"
    /\ filter.OutputDir # EmptyStr
    /\ Len(files) >= 2
    /\ \E i \in 1..Len(handled) : handled[i].sink \in {"marshalError", "createError"}

\* While walking, the walker is never stuck: it is past the last group (and
\* logs the completion line next), at the head or the end of a group, or at
\* a resource with a namespace of its list still to do.
WalkerCanStep ==
    \/ gi > Len(env.apiResources)
    \/ gi <= Len(env.apiResources) /\ ri = 0
    \/ gi <= Len(env.apiResources) /\ ri > Len(env.apiResources[gi].APIResources)
    \/ /\ gi <= Len(env.apiResources)
       /\ ri \in 1..Len(env.apiResources[gi].APIResources)
       /\ ni = 0 \/ ni < Len(params.namespaces)

\* C8: a list call that returns an error emits nothing and never aborts the
\* run: the remaining namespaces of the descriptor and all later descriptors
\* and groups are listed exactly as if the call had returned an empty result
\* (the calls issued are the full plan, whatever fails), the walker is never
\* stuck or ended early (no fatal exit after a list call), and a finished
\* run has logged 'Done collecting resources.'.
C8_ListErrorsAreSkipped ==
    /\ \A i \in 1..Len(handled) : calls[handled[i].call].ok
    /\ pc = "walk" => (IsPrefix(Issued, Plan) /\ WalkerCanStep)
    /\ pc = "done" => (Issued = Plan /\ logs[Len(logs)] = DoneLine)
    /\ pc = "fatal" => calls = << >>

\* C8 witness: a finished run in a named-namespaces mode with two namespaces
\* in which every list call failed.
C8_Witness ==
    /\ pc = "done"
    /\ NamedMode
    /\ Len(flags.namespaces) >= 2
    /\ Len(calls) >= 4
    /\ \A i \in 1..Len(calls) : ~calls[i].ok

C10_TreePath ==
    /\ \A i \in 1..Len(files) :
          LET f == files[i]
              openshift == HasSuffix(f.gvr.Group, s_openshift_io)
              filename == IF openshift THEN s_openshift_ \o f.item.name \o s_yaml
                          ELSE f.item.name \o s_yaml
          IN  f.path = Clean(filter.OutputDir \o <<Slash>> \o f.item.namespace
                             \o <<Slash>> \o f.gvr.Resource \o <<Slash>> \o filename)
    /\ \A i, j \in 1..Len(files) :
          ( /\ files[i].item.namespace = files[j].item.namespace
            /\ files[i].gvr.Resource = files[j].gvr.Resource
            /\ files[i].item.name = files[j].item.name
            /\ HasSuffix(files[i].gvr.Group, s_openshift_io)
            /\ ~HasSuffix(files[j].gvr.Group, s_openshift_io) )
          => files[i].path # files[j].path

\* C10 witness: the role `admin` of namespace `default` was written once from
\* rbac.authorization.k8s.io and once from authorization.openshift.io, and a
\* cluster-scoped object was written too.
C10_Witness ==
    /\ \E i, j \in 1..Len(files) :
          /\ files[i].gvr.Group = g_openshift
          /\ files[j].gvr.Group = g_rbac
          /\ files[i].item.name = files[j].item.name
          /\ files[i].item.namespace = files[j].item.namespace
    /\ \E i \in 1..Len(files) : files[i].item.namespace = EmptyStr

(* --------------------------------- C11 --------------------------------- *)

\* The data rows one planned list call contributes: nothing when the call
\* fails, else one record per returned object that lies in the time window
\* and serializes, in the order the server returned them.
RowsOfPlanEntry(e) ==
    LET g == env.apiResources[e.gi]
        r == g.APIResources[e.ri]
        gvr == GroupVersionResource(GroupPart(g.GroupVersion),
                                    VersionPart(g.GroupVersion), r.Name)
        items == IF <<r.Name, e.ns>> \in env.failing THEN << >>
                 ELSE ServerList(gvr, e.ns)
        kept == SelectSeq(items, LAMBDA o : /\ PassesWindow(o.created, filter)
                                            /\ o.name \notin env.unmarshalable)
        base(o) == << o.kind, r.Name, o.apiVersion, o.namespace, o.name,
                      FormatUTC(o.created) >>
    IN  [i \in 1..Len(kept) |->
            [type |-> "row",
             fields |-> IF filter.ResourceData
                        THEN Append(base(kept[i]), [encoding |-> "json", object |-> kept[i]])
                        ELSE base(kept[i])]]

\* The data rows of the first n planned list calls: groups in discovery
\* order, resources in discovery order, namespaces in flag order, objects in
\* server order.
RECURSIVE RowsOfPlanUpTo(_)
RowsOfPlanUpTo(n) ==
    IF n = 0 THEN << >>
    ELSE RowsOfPlanUpTo(n - 1) \o RowsOfPlanEntry(Plan[n])

Tabular == flags.outputDir = EmptyStr

\* C11: in every run in tabular mode the lines on standard output are the
\* header line first, followed by data rows and nothing else, the rows in
\* this order: groups in discovery order, resources within a group in
\* discovery order, namespaces in flag order, objects of one list call in
\* server order; no row precedes the header and no row of a later list call
\* precedes a row of an earlier one.
C11_HeaderThenRowsInOrder ==
    (Tabular /\ PastHeader) =>
        /\ Len(stdout) >= 1
        /\ stdout[1].type = "header"
        /\ Len(calls) <= Len(Plan)
        /\ SubSeq(stdout, 2, Len(stdout)) = RowsOfPlanUpTo(Len(calls))

\* The ordering part of C11, which holds: leaving aside the "Nothing to
\* process" line of the no-op run, standard output in tabular mode is the
\* header followed by the rows of the list calls issued so far, in plan order.
C11_RowsInPlanOrder ==
    (Tabular /\ PastHeader) =>
        /\ Len(stdout) >= 1
        /\ stdout[1].type = "header"
        /\ Len(calls) <= Len(Plan)
        /\ SelectSeq(SubSeq(stdout, 2, Len(stdout)), LAMBDA l : l.type # "info")
             = RowsOfPlanUpTo(Len(calls))
        /\ \A i \in 2..Len(stdout) : stdout[i].type = "info" => pc = "exit"

(* --------------------------------- C12 --------------------------------- *)

\* The objects of namespaced descriptors that reached a sink, as positions
\* in the history of handled objects.
NamespacedAtSink ==
    { i \in 1..Len(handled) :
        /\ handled[i].sink \in SinkBranches
        /\ DescriptorOfCall(calls[handled[i].call]).Namespaced }

\* Two handled entries are the same cluster object: same coordinate, same
\* namespace, same name.
SameObject(a, b) ==
    /\ a.gvr = b.gvr
    /\ a.item.namespace = b.item.namespace
    /\ a.item.name = b.item.name

C12_InNamedNamespace ==
    NamedMode =>
        \A i \in NamespacedAtSink :
            handled[i].item.namespace \in Range(flags.namespaces)

C12_AtMostOnce ==
    NamedMode =>
        \A i, j \in 1..Len(handled) :
            ( /\ i # j
              /\ handled[i].sink \in SinkBranches
              /\ handled[j].sink \in SinkBranches )
            => ~SameObject(handled[i], handled[j])

\* C12: in a named-namespaces mode (the namespace list is non-empty, is not
\* exactly [""] and does not contain "*") every namespaced object that
\* reaches a sink has a metadata.namespace equal to one of the entries of the
\* namespace list, and every object reaches a sink at most once in the run;
\* lists with "" next to named namespaces and lists that repeat a namespace
\* included.
C12_NamedNamespacesOnlyAndOnce ==
    C12_InNamedNamespace /\ C12_AtMostOnce

====
